---- MODULE Spec2Model ----
(***************************************************************************)
(* A model of the MCP/OpenAI command-line chat client                      *)
(* (src/src/mcp_client_openai.py, src/main.py) and of the temperature      *)
(* monitor (src/src/weather_mockup_nomcp.py).                              *)
(*                                                                         *)
(* Text is modelled as a sequence of tokens (strings); a token stands for  *)
(* a run of characters.  Formatting, joining, stripping, lower-casing and  *)
(* JSON parsing are computed on these sequences.                           *)
(***************************************************************************)
EXTENDS Integers, Sequences, FiniteSets, TLC

\* ---------------------------------------------------------------- bounds
\* Queries forwarded to process_query in one session.
MaxTurns == 2
\* Tool-call requests in one model reply.
MaxToolCalls == 2
\* Readings taken in one run of run_monitoring.
MaxReadings == 22
\* Decisions stored in schedule_history in one run of run_monitoring.
MaxDecisions == 2

\* ------------------------------------------------------- text primitives
RECURSIVE Concat(_)
\* The concatenation of a sequence of texts.
Concat(parts) ==
    IF parts = <<>> THEN <<>> ELSE Head(parts) \o Concat(Tail(parts))

\* text[from..] starts with prefix.
StartsWith(text, prefix) ==
    /\ Len(prefix) <= Len(text)
    /\ SubSeq(text, 1, Len(prefix)) = prefix

\* sub occurs in text as a contiguous run.
Contains(text, sub) ==
    \E i \in 0..(Len(text) - Len(sub)) : SubSeq(text, i + 1, i + Len(sub)) = sub

\* str.endswith on a path whose last token is its suffix.
endswith(path, suffix) ==
    /\ path # <<>>
    /\ path[Len(path)] = suffix

\* Optional text: Python's None or a str.
None == [some |-> FALSE, text |-> <<>>]
Some(t) == [some |-> TRUE, text |-> t]
\* Python truthiness of an Optional[str]: None and "" are falsy.
Truthy(c) == c.some /\ c.text # <<>>

RECURSIVE JoinNewline_Trailing(_)
\* Mutant: every part is followed by a newline.
JoinNewline_Trailing(parts) ==
    IF parts = <<>> THEN <<>>
    ELSE Head(parts) \o <<"\n">> \o JoinNewline_Trailing(Tail(parts))

\* "\n".join(parts)
RECURSIVE JoinNewline(_)
JoinNewline(parts) ==
    IF parts = <<>> THEN <<>>
    ELSE IF Len(parts) = 1 THEN Head(parts)
    ELSE Head(parts) \o <<"\n">> \o JoinNewline(Tail(parts))

\* ------------------------------------------------------ console input
Whitespace == {" ", "\t"}

RECURSIVE lstrip(_)
lstrip(s) ==
    IF s # <<>> /\ Head(s) \in Whitespace THEN lstrip(Tail(s)) ELSE s

RECURSIVE rstrip(_)
rstrip(s) ==
    IF s # <<>> /\ s[Len(s)] \in Whitespace
    THEN rstrip(SubSeq(s, 1, Len(s) - 1))
    ELSE s

\* str.strip()
strip(s) == rstrip(lstrip(s))

LowerChar(c) ==
    CASE c = "Q" -> "q"
      [] c = "U" -> "u"
      [] c = "I" -> "i"
      [] c = "T" -> "t"
      [] c = "E" -> "e"
      [] c = "X" -> "x"
      [] OTHER -> c

\* str.lower()
lower(s) == [i \in 1..Len(s) |-> LowerChar(s[i])]

\* The list ["quit", "exit", "q"] of chat_loop.
ExitWords == { <<"q", "u", "i", "t">>, <<"e", "x", "i", "t">>, <<"q">> }

\* The lines a user may enter at the prompt (one character per token).
InputLines ==
    { <<"q", "u", "i", "t">>, <<"Q", "u", "I", "T">>, <<"e", "x", "i", "t">>,
      <<"E", "x", "i", "t">>, <<"q">>, <<"Q">>,
      <<" ", "q", "u", "i", "t", " ">>, <<"\t", "Q">>,
      <<"q", "u", "i", "t", "s">>, <<" ", "h", "i">>, <<>> }

\* ------------------------------------------------- tool-call arguments
\* Argument payloads a model reply may carry (raw text, expected to be JSON):
\* {"city": "Boston"}, {} and the truncated {"city":
ArgCityBoston == <<"{", "\"", "city", "\"", ":", "\"", "Boston", "\"", "}">>
ArgEmptyObject == <<"{", "}">>
ArgTruncated == <<"{", "\"", "city", "\"", ":">>

\* The tokens that have a meaning of their own in JSON text.
Structural == {"\"", "{", "}", ":", ","}

\* A token that is a number literal (the integers 0..60), and its value.
IsNumber(tok) == \E n \in 0..60 : ToString(n) = tok
NumberOf(tok) == CHOOSE n \in 0..60 : ToString(n) = tok

RECURSIVE ParseMembers(_)
\* The members of a JSON object, from its first key up to the closing brace:
\* "key": "string" or "key": number, separated by commas.
ParseMembers(t) ==
    LET key  == /\ Len(t) >= 5
                /\ t[1] = "\"" /\ t[2] \notin Structural /\ t[3] = "\"" /\ t[4] = ":"
        str  == /\ key /\ Len(t) >= 8
                /\ t[5] = "\"" /\ t[6] \notin Structural /\ t[7] = "\""
        num  == key /\ Len(t) >= 6 /\ IsNumber(t[5])
        pair == IF str THEN <<t[2], t[6]>> ELSE <<t[2], NumberOf(t[5])>>
        rest == SubSeq(t, (IF str THEN 8 ELSE 6), Len(t))
        fail == [ok |-> FALSE, value |-> <<>>]
    IN  IF ~(str \/ num) THEN fail
        ELSE IF rest = <<"}">> THEN [ok |-> TRUE, value |-> <<pair>>]
        ELSE IF Head(rest) = ","
        THEN LET more == ParseMembers(Tail(rest))
             IN  IF more.ok THEN [ok |-> TRUE, value |-> <<pair>> \o more.value]
                 ELSE fail
        ELSE fail

\* Whether the text is a JSON object of string and number members.
IsJsonObject(text) ==
    \/ text = <<"{", "}">>
    \/ /\ Len(text) >= 2
       /\ Head(text) = "{"
       /\ ParseMembers(Tail(text)).ok

\* json.loads: the parsed dict as a sequence of <<key, value>> pairs, or a
\* JSONDecodeError.
json_loads(text) ==
    IF IsJsonObject(text)
    THEN [ok |-> TRUE,
          value |-> IF text = <<"{", "}">> THEN <<>>
                    ELSE ParseMembers(Tail(text)).value]
    ELSE [ok |-> FALSE, value |-> <<>>]

\* Mutant: on a parse failure the fallback is not the empty dict.
ParseToolArgs_BadFallback(arguments) ==
    IF json_loads(arguments).ok
    THEN json_loads(arguments).value
    ELSE << <<"arguments", "invalid">> >>

\* try: json.loads(arguments) except JSONDecodeError: {}
ParseToolArgs(arguments) ==
    IF json_loads(arguments).ok THEN json_loads(arguments).value ELSE <<>>

RECURSIVE ReprItems(_)
ReprItems(d) ==
    IF d = <<>> THEN <<>>
    ELSE <<"'", Head(d)[1], "'", ": ", "'", Head(d)[2], "'">>
         \o (IF Len(d) > 1 THEN <<", ">> ELSE <<>>) \o ReprItems(Tail(d))

\* Python's str() of a dict of strings: {'city': 'Boston'}
ReprDict(d) == <<"{">> \o ReprItems(d) \o <<"}">>

\* Mutant: the trace line shows the tool name only.
TraceLine_NoArgs(tool_name, tool_args) == <<"[Calling tool ", tool_name, "]">>

\* f"[Calling tool {tool_name} with args {tool_args}]"
TraceLine(tool_name, tool_args) ==
    <<"[Calling tool ", tool_name, " with args ">> \o ReprDict(tool_args) \o <<"]">>

\* Mutant: the error string leaves out the tool name.
ErrorMessage_NoToolName(tool_name, e) == <<"Error calling tool: ">> \o e

\* f"Error calling tool {tool_name}: {str(e)}"
ErrorMessage(tool_name, e) ==
    <<"Error calling tool ", tool_name, ": ">> \o e

\* str(result.content): the repr of the list of content items of the result.
StrContent(text) ==
    <<"[TextContent(type='text', text='">> \o text \o <<"')]">>

\* ------------------------------------------------------------ messages
\* A conversation message; tool_call_id "" and tool_calls <<>> when absent.
UserMessage(q) ==
    [role |-> "user", content |-> Some(q), tool_calls |-> <<>>, tool_call_id |-> ""]

\* Mutant: the assistant message does not list the requested tool calls.
AssistantMessage_NoToolCalls(m) ==
    [role |-> "assistant", content |-> m.content, tool_calls |-> <<>>,
     tool_call_id |-> ""]

\* The assistant message built from the first reply.
AssistantMessage(m) ==
    [role |-> "assistant", content |-> m.content,
     tool_calls |-> [i \in 1..Len(m.tool_calls) |->
                        [id |-> m.tool_calls[i].id,
                         type |-> m.tool_calls[i].type,
                         function |-> [name |-> m.tool_calls[i].function.name,
                                       arguments |-> m.tool_calls[i].function.arguments]]],
     tool_call_id |-> ""]

\* The tool-role message answering one tool call.
ToolMessage(content, tool_call) ==
    [role |-> "tool", content |-> Some(content), tool_calls |-> <<>>,
     tool_call_id |-> tool_call.id]

\* ------------------------------------------------- external collaborators
\* The (name, arguments) shapes of a requested tool call.
ToolCallShapes ==
    { [name |-> "get_weather", arguments |-> ArgCityBoston],
      [name |-> "get_weather", arguments |-> ArgTruncated],
      [name |-> "get_alerts", arguments |-> ArgEmptyObject] }

\* The provider's identifier of the i-th tool call of a reply.
CallId(i) == "call_" \o ToString(i)

\* The tool_calls lists a chat completion may return.
ToolCallLists ==
    UNION { { [i \in 1..n |-> [id |-> CallId(i), type |-> "function",
                              function |-> shapes[i]]] :
              shapes \in [1..n -> ToolCallShapes] } : n \in 0..MaxToolCalls }

\* The content of a chat completion: None, "" or a text.
ReplyContents(text) == { None, Some(<<>>), Some(text) }

\* Texts the collaborators produce.
FirstText == <<"Let me check.">>
FinalText == <<"It is ", "72F, clear", " in Boston.">>
OtherFinalText == <<"Done.">>
WeatherResult == <<"72F, clear">>
ServerDown == <<"server down">>

\* The tool catalogs the server may list.
WeatherTool ==
    [name |-> "get_weather", description |-> "Get weather",
     inputSchema |-> "schema_city"]
AlertsTool ==
    [name |-> "get_alerts", description |-> "Get alerts",
     inputSchema |-> "schema_state"]
Catalogs == { <<>>, <<WeatherTool, AlertsTool>> }

\* Mutant: descriptors without a description are left out.
convert_SkipsUndescribed(tools) ==
    LET kept == SelectSeq(tools, LAMBDA t : t.description # "") IN
    [i \in 1..Len(kept) |->
        [type |-> "function",
         function |-> [name |-> kept[i].name,
                       description |-> kept[i].description,
                       parameters |-> kept[i].inputSchema]]]

\* _convert_mcp_tools_to_openai_format
convert_mcp_tools_to_openai_format(mcp_tools) ==
    [i \in 1..Len(mcp_tools) |->
        [type |-> "function",
         function |-> [name |-> mcp_tools[i].name,
                       description |-> mcp_tools[i].description,
                       parameters |-> mcp_tools[i].inputSchema]]]

\* Exception classes: Exception and its subclasses are caught by
\* "except Exception"; KeyboardInterrupt and asyncio.CancelledError derive from
\* BaseException only.
\* What a blocking (synchronous) call may raise.
SyncRaises == {"Exception", "KeyboardInterrupt"}
\* What an awaited call may raise.
AwaitRaises == {"Exception", "CancelledError"}

\* ---------------------------------------------------------------- state
VARIABLES
    entry,          \* how the client is used: the script's __main__ block
                    \* (which runs client_main), openai_client_loop, or a
                    \* caller that constructs it and calls process_query
    argv,           \* the server script path given (<<>> when missing)
    apiKey,         \* os.getenv("OPENAI_API_KEY"): None, "" or a key
    pc,             \* position of the single thread of control
    exc,            \* the exception being handled or propagating ("none")
    excSite,        \* the call that raised it
    session,        \* self.session is not None
    exit_stack,     \* contexts entered into self.exit_stack, in order
    opened,         \* transport/session resources currently open
    cleanupRan,     \* client.cleanup() has been executed
    turns,          \* queries forwarded to process_query so far
    stdout,         \* kind of the last line chat_loop printed
    line,           \* chat_loop: what input() returned in this iteration
    query,          \* process_query: its argument
    messages,       \* process_query: the conversation
    mcp_tools,      \* process_query: the tool catalog the server listed
    openai_tools,   \* process_query: the converted tool specs
    final_text,     \* process_query: the accumulated output parts
    message,        \* process_query: the first reply
    idx,            \* process_query: position in message.tool_calls (1-based)
    final_message,  \* process_query: the second reply
    response,       \* chat_loop: the text process_query returned
    sent,           \* the chat-completion requests issued for this query
    dispatched,     \* the call_tool invocations issued for this query
    outcomes,       \* how each call_tool invocation of this query ended
    temperature_history,  \* WeatherMonitorMockup.temperature_history
    schedule_history,     \* WeatherMonitorMockup.schedule_history
    decision,       \* run_monitoring: what ai_schedule_decision returned
    reply,          \* ai_schedule_decision: how the create call ended
    clock,          \* time.time(), in whole seconds
    readings        \* every reading run_monitoring has taken, in order

procVars ==
    <<line, query, messages, mcp_tools, openai_tools, final_text, message, idx, final_message,
      response, sent, dispatched, outcomes>>
lifeVars == <<session, exit_stack, opened, cleanupRan>>
startVars == <<entry, argv, apiKey>>
monVars == <<temperature_history, schedule_history, decision, reply, clock, readings>>
vars == <<startVars, pc, exc, excSite, lifeVars, turns, stdout, procVars, monVars>>

NoReply == [content |-> None, tool_calls |-> <<>>]

\* No create call of ai_schedule_decision has ended yet.
NoMonitorReply == [raises |-> "none", content |-> None]

\* The monitor before its first reading (and, in a run of the client, never
\* touched).
MonBlank ==
    /\ temperature_history = <<>>
    /\ schedule_history = <<>>
    /\ decision = <<>>
    /\ reply = NoMonitorReply
    /\ clock = 0
    /\ readings = <<>>

\* The locals of a chat_loop iteration and of its process_query call before
\* the iteration starts (and after it is over).
ProcBlank ==
    /\ line = None
    /\ query = <<>>
    /\ messages = <<>>
    /\ mcp_tools = <<>>
    /\ openai_tools = <<>>
    /\ final_text = <<>>
    /\ message = NoReply
    /\ idx = 0
    /\ final_message = NoReply
    /\ response = <<>>
    /\ sent = <<>>
    /\ dispatched = <<>>
    /\ outcomes = <<>>

ProcReset ==
    /\ line' = None
    /\ query' = <<>>
    /\ messages' = <<>>
    /\ mcp_tools' = <<>>
    /\ openai_tools' = <<>>
    /\ final_text' = <<>>
    /\ message' = NoReply
    /\ idx' = 0
    /\ final_message' = NoReply
    /\ response' = <<>>
    /\ sent' = <<>>
    /\ dispatched' = <<>>
    /\ outcomes' = <<>>

\* What os.getenv("OPENAI_API_KEY") may return: unset, empty or a key.
EnvValues == { None, Some(<<>>), Some(<<"sk-test">>) }

ServerPaths == { <<"server", ".py">>, <<"server", ".js">>, <<"server", ".txt">> }

Init ==
    /\ entry \in {"__main__", "openai_client_loop", "process_query"}
    /\ argv \in ServerPaths \cup {<<>>}
    /\ entry = "openai_client_loop" => argv # <<>>
    /\ entry = "process_query" => argv = <<>>
    /\ apiKey \in EnvValues
    /\ pc = IF entry = "__main__" THEN "main" ELSE "construct"
    /\ exc = "none"
    /\ excSite = ""
    /\ session = FALSE
    /\ exit_stack = <<>>
    /\ opened = {}
    /\ cleanupRan = FALSE
    /\ turns = 0
    /\ stdout = "none"
    /\ ProcBlank
    /\ MonBlank

\* ------------------------------------------------------------- start-up
\* The __main__ block of mcp_client_openai.py: usage and API-key checks.
ScriptMain ==
    /\ pc = "main"
    /\ pc' = IF argv = <<>> \/ ~Truthy(apiKey) THEN "exited" ELSE "construct"
    /\ stdout' = IF argv = <<>> THEN "usage"
                 ELSE IF ~Truthy(apiKey) THEN "key_required" ELSE stdout
    /\ UNCHANGED <<monVars, startVars, exc, excSite, lifeVars, turns, procVars>>

\* Mutant: no finally clause.
try_exit_NoFinally == "done"

\* Where control goes when the try block of client_main / openai_client_loop
\* is left, normally or by an exception: the finally clause.
try_exit == "cleanup"

\* Mutant: only an unset variable is refused, an empty one is accepted.
KeyMissing_OnlyUnset(api_key) == ~api_key.some

\* "if not api_key" of __init__.
KeyMissing(api_key) == ~Truthy(api_key)

\* client = MCPClientOpenAI(): outside the try block.
Construct ==
    /\ pc = "construct"
    /\ IF ~KeyMissing(apiKey)
       THEN /\ pc' = IF entry = "process_query" THEN "direct" ELSE "connect"
            /\ UNCHANGED <<exc, excSite>>
       ELSE /\ pc' = "done"
            /\ exc' = "Exception"
            /\ excSite' = "__init__"
    /\ UNCHANGED <<monVars, startVars, lifeVars, turns, stdout, procVars>>

\* The stages of connect_to_server that acquire or use the transport.
ConnectStages ==
    <<"connect.stdio_client", "connect.ClientSession", "connect.initialize",
      "connect.list_tools">>

\* The contexts on the exit stack once stage number n is being attempted.
StackAt(n) ==
    IF n <= 1 THEN <<>>
    ELSE IF n = 2 THEN <<"stdio_client">>
    ELSE <<"stdio_client", "ClientSession">>

Range(f) == { f[i] : i \in DOMAIN f }

\* connect_to_server: runs to completion (failAt = 5) or raises at a stage.
ConnectToServer ==
    /\ pc = "connect"
    /\ IF ~(endswith(argv, ".py") \/ endswith(argv, ".js"))
       THEN /\ pc' = try_exit
            /\ exc' = "Exception"
            /\ excSite' = "connect_to_server"
            /\ UNCHANGED <<lifeVars, stdout>>
       ELSE \E failAt \in 1..(Len(ConnectStages) + 1) :
              /\ exit_stack' = StackAt(failAt)
              /\ opened' = Range(StackAt(failAt))
              /\ session' = (failAt >= 3)
              /\ UNCHANGED cleanupRan
              /\ IF failAt > Len(ConnectStages)
                 THEN /\ pc' = "read"
                      /\ stdout' = "connected"
                      /\ UNCHANGED <<exc, excSite>>
                 ELSE /\ \E kind \in AwaitRaises : exc' = kind
                      /\ excSite' = ConnectStages[failAt]
                      /\ pc' = try_exit
                      /\ UNCHANGED stdout
    /\ UNCHANGED <<monVars, startVars, turns, procVars>>

\* AsyncExitStack.aclose(): closes every entered context, last first.
aclose(stack) == <<>>

\* client.cleanup() in the finally clause; a pending exception then goes on.
Cleanup ==
    /\ pc = "cleanup"
    /\ exit_stack' = aclose(exit_stack)
    /\ opened' = (opened \ Range(exit_stack)) \cup Range(exit_stack')
    /\ cleanupRan' = TRUE
    /\ pc' = "done"
    /\ UNCHANGED <<monVars, startVars, exc, excSite, session, turns, stdout, procVars>>

\* ------------------------------------------------------------ chat_loop
\* Mutant: the comparison is case-sensitive.
IsExitCommand_CaseSensitive(q) == q \in ExitWords

\* query.lower() in ["quit", "exit", "q"]
IsExitCommand(q) == lower(q) \in ExitWords

\* Mutant: chat_loop has no "except Exception" clause.
chat_loop_handler_NoCatchAll(kind) ==
    IF kind = "KeyboardInterrupt" THEN "goodbye" ELSE "propagate"

\* Mutant: the second clause is a bare "except:".
chat_loop_handler_BareExcept(kind) ==
    IF kind = "KeyboardInterrupt" THEN "goodbye" ELSE "report"

\* The except clauses of chat_loop: what happens to an exception of a kind
\* raised inside the try block.
chat_loop_handler(kind) ==
    IF kind = "KeyboardInterrupt" THEN "goodbye"
    ELSE IF kind = "Exception" THEN "report"
    ELSE "propagate"

\* An exception of the given kind raised at a call site inside the try block
\* of chat_loop; the frame of process_query (if any) is gone.
RaiseInLoop(kind, site) ==
    /\ excSite' = site
    /\ ProcReset
    /\ IF chat_loop_handler(kind) = "goodbye"
       THEN /\ stdout' = "goodbye"
            /\ exc' = "none"
            /\ pc' = try_exit
       ELSE IF chat_loop_handler(kind) = "report"
       THEN /\ exc' = kind
            /\ pc' = "except"
            /\ UNCHANGED stdout
       ELSE /\ exc' = kind
            /\ pc' = try_exit
            /\ UNCHANGED stdout

\* Mutant: the conversation starts with a system message.
SeedConversation_WithSystem(q) ==
    <<[role |-> "system", content |-> Some(<<"You are a helpful assistant.">>),
       tool_calls |-> <<>>, tool_call_id |-> ""],
      UserMessage(q)>>

\* messages = [{"role": "user", "content": query}]
SeedConversation(q) == <<UserMessage(q)>>

\* Mutant: the session is never checked.
NotConnected_Unchecked(s) == FALSE

\* "if not self.session"
NotConnected(s) == ~s

\* process_query(q) up to its first await; returnTo is where its caller
\* continues with the returned text.
StartQuery(q, returnTo) ==
    /\ query' = q
    /\ IF NotConnected(session)
       THEN /\ response' = <<"Error: Not connected to MCP server">>
            /\ pc' = returnTo
            /\ UNCHANGED messages
       ELSE /\ messages' = SeedConversation(q)
            /\ pc' = "list_tools"
            /\ UNCHANGED response

\* input("\nQuery: ").strip() returns a line: an exit command leaves the loop,
\* any other line is passed to process_query, which runs up to its first await.
ReadLine ==
    /\ pc = "read"
    /\ \E entered \in InputLines :
         LET q == strip(entered) IN
         IF IsExitCommand(q)
         THEN /\ pc' = try_exit
              /\ line' = Some(entered)
              /\ UNCHANGED <<turns, query, messages, response>>
         ELSE /\ turns < MaxTurns
              /\ turns' = turns + 1
              /\ line' = Some(entered)
              /\ StartQuery(q, "returned")
    /\ UNCHANGED <<mcp_tools, openai_tools, final_text, message, idx,
                   final_message, sent, dispatched, outcomes>>
    /\ UNCHANGED <<monVars, startVars, exc, excSite, lifeVars, stdout>>

\* The queries a caller may pass to process_query directly.
DirectQueries == { <<"h", "i">>, <<>> }

\* A caller awaits client.process_query(q) on the client it constructed.
DirectQuery ==
    /\ pc = "direct"
    /\ \E q \in DirectQueries : StartQuery(q, "returned_direct")
    /\ turns' = turns + 1
    /\ UNCHANGED <<line, mcp_tools, openai_tools, final_text, message, idx,
                   final_message, sent, dispatched, outcomes>>
    /\ UNCHANGED <<monVars, startVars, exc, excSite, lifeVars, stdout>>

\* input() raises: KeyboardInterrupt (Ctrl-C) or an Exception such as EOFError.
ReadRaises ==
    /\ pc = "read"
    /\ \E kind \in SyncRaises : RaiseInLoop(kind, "input")
    /\ UNCHANGED <<monVars, startVars, lifeVars, turns>>

\* f"\nError: {str(e)}": the text of an exception names the call that raised it.
ErrorLine(site) == "Error: " \o site

\* except Exception as e: print(f"\nError: {str(e)}"), then the next iteration.
ReportError ==
    /\ pc = "except"
    /\ stdout' = ErrorLine(excSite)
    /\ exc' = "none"
    /\ excSite' = ""
    /\ pc' = "read"
    /\ UNCHANGED <<monVars, startVars, lifeVars, turns, procVars>>

\* print("\n" + response), then the next iteration.
PrintResponse ==
    /\ pc = "returned"
    /\ stdout' = "response"
    /\ pc' = "read"
    /\ ProcReset
    /\ UNCHANGED <<monVars, startVars, exc, excSite, lifeVars, turns>>

\* -------------------------------------------------------- process_query
\* await self.session.list_tools() and the conversion of the catalog.
ListTools ==
    /\ pc = "list_tools"
    /\ \/ /\ \E cat \in Catalogs : mcp_tools' = cat
          /\ openai_tools' = convert_mcp_tools_to_openai_format(mcp_tools')
          /\ pc' = "first_call"
          /\ UNCHANGED <<exc, excSite, stdout, line, query, messages, final_text,
                         message, idx, final_message, response, sent,
                         dispatched, outcomes>>
       \/ \E kind \in AwaitRaises : RaiseInLoop(kind, "list_tools")
    /\ UNCHANGED <<monVars, startVars, lifeVars, turns>>

\* A chat-completion request as issued: the conversation at that moment and
\* the tool specs attached.
Request(msgs, tools) == [messages |-> msgs, tools |-> tools]

\* Mutant: a reply's content is never added to the output.
WithContent_Drops(parts, content) == parts

\* final_text after a reply's content is taken into account.
WithContent(parts, content) ==
    IF Truthy(content) THEN Append(parts, content.text) ELSE parts

\* Mutant: the requested tool calls are ignored.
AfterFirstReply_IgnoresTools(tool_calls) == "returned"

\* Where process_query goes after the first reply.
AfterFirstReply(tool_calls) ==
    IF tool_calls # <<>> THEN "call_tool" ELSE "returned"

\* The initial chat-completion call and the handling of its reply up to the
\* first tool invocation (or the return).
FirstCompletion ==
    /\ pc = "first_call"
    /\ \/ \E content \in ReplyContents(FirstText), tcs \in ToolCallLists :
            /\ openai_tools = <<>> => tcs = <<>>
            /\ sent' = Append(sent, Request(messages, openai_tools))
            /\ message' = [content |-> content, tool_calls |-> tcs]
            /\ final_text' = WithContent(<<>>, content)
            /\ pc' = AfterFirstReply(tcs)
            /\ IF AfterFirstReply(tcs) = "call_tool"
               THEN /\ messages' = Append(messages, AssistantMessage(message'))
                    /\ idx' = 1
                    /\ UNCHANGED response
               ELSE /\ response' = JoinNewline(final_text')
                    /\ UNCHANGED <<messages, idx>>
            /\ UNCHANGED <<exc, excSite, stdout, line, query, mcp_tools,
                           openai_tools, final_message, dispatched, outcomes>>
       \/ \E kind \in SyncRaises : RaiseInLoop(kind, "create_1")
    /\ UNCHANGED <<monVars, startVars, lifeVars, turns>>

\* What the transport answers to a call_tool invocation.
ToolResults == { WeatherResult }
ToolErrors == { ServerDown }

\* Mutant: the tool loop stops after its first iteration.
AfterToolCall_StopsEarly(i, n) == "second_call"

\* Where the tool loop goes after the call at position i of n.
AfterToolCall(i, n) == IF i < n THEN "call_tool" ELSE "second_call"

\* Mutant: the requested calls are taken last first.
NextToolCall_Reversed(tool_calls, i) == tool_calls[Len(tool_calls) + 1 - i]

\* The tool call of the i-th iteration of "for tool_call in message.tool_calls".
NextToolCall(tool_calls, i) == tool_calls[i]

\* One iteration of "for tool_call in message.tool_calls".
CallTool ==
    /\ pc = "call_tool"
    /\ LET tool_call == NextToolCall(message.tool_calls, idx)
           tool_name == tool_call.function.name
           tool_args == ParseToolArgs(tool_call.function.arguments)
           traced    == Append(final_text, TraceLine(tool_name, tool_args))
       IN
       \/ /\ dispatched' = Append(dispatched, [name |-> tool_name, args |-> tool_args])
          /\ \/ \E r \in ToolResults :
                  /\ messages' = Append(messages, ToolMessage(StrContent(r), tool_call))
                  /\ final_text' = traced
                  /\ outcomes' = Append(outcomes, [kind |-> "ok", text |-> r])
             \/ \E e \in ToolErrors :
                  /\ messages' = Append(messages,
                                        ToolMessage(ErrorMessage(tool_name, e), tool_call))
                  /\ final_text' = Append(traced, ErrorMessage(tool_name, e))
                  /\ outcomes' = Append(outcomes, [kind |-> "Exception", text |-> e])
          /\ idx' = idx + 1
          /\ pc' = AfterToolCall(idx, Len(message.tool_calls))
          /\ UNCHANGED <<exc, excSite, stdout, line, query, mcp_tools,
                         openai_tools, message, final_message, response, sent>>
       \/ RaiseInLoop("CancelledError", "call_tool")
    /\ UNCHANGED <<monVars, startVars, lifeVars, turns>>

\* The tool_calls a second reply may carry.
SecondToolCalls ==
    { <<>>,
      <<[id |-> CallId(1), type |-> "function",
         function |-> [name |-> "get_alerts", arguments |-> ArgEmptyObject]]>> }

\* The follow-up chat-completion call and the return of process_query.
SecondCompletion ==
    /\ pc = "second_call"
    /\ \/ \E content \in ReplyContents(FinalText) \cup {Some(OtherFinalText)},
             tcs \in SecondToolCalls :
            /\ sent' = Append(sent, Request(messages, openai_tools))
            /\ final_message' = [content |-> content, tool_calls |-> tcs]
            /\ final_text' = WithContent(final_text, content)
            /\ response' = JoinNewline(final_text')
            /\ pc' = "returned"
            /\ UNCHANGED <<exc, excSite, stdout, line, query, messages, mcp_tools,
                           openai_tools, message, idx, dispatched, outcomes>>
       \/ \E kind \in SyncRaises : RaiseInLoop(kind, "create_2")
    /\ UNCHANGED <<monVars, startVars, lifeVars, turns>>

\* ----------------------------------------------------------------- spec
Next ==
    \/ ScriptMain
    \/ Construct
    \/ ConnectToServer
    \/ ReadLine
    \/ DirectQuery
    \/ ReadRaises
    \/ ListTools
    \/ FirstCompletion
    \/ CallTool
    \/ SecondCompletion
    \/ PrintResponse
    \/ ReportError
    \/ Cleanup

Spec == Init /\ [][Next]_vars

\* ------------------------------------------ the schema adapter on its own
\* Catalog size for the adapter's own specification.
MaxCatalog == 4

\* A descriptor with an empty description.
PingTool == [name |-> "ping", description |-> "", inputSchema |-> "schema_none"]

\* Every catalog of up to MaxCatalog descriptors, repetitions included.
AnyCatalog ==
    UNION { [1..n -> {WeatherTool, AlertsTool, PingTool}] : n \in 0..MaxCatalog }

\* A client whose _convert_mcp_tools_to_openai_format is about to be called.
ConvertInit ==
    /\ entry = "_convert_mcp_tools_to_openai_format"
    /\ argv = <<>>
    /\ apiKey = Some(<<"sk-test">>)
    /\ pc = "convert"
    /\ exc = "none"
    /\ excSite = ""
    /\ session = FALSE
    /\ exit_stack = <<>>
    /\ opened = {}
    /\ cleanupRan = FALSE
    /\ turns = 0
    /\ stdout = "none"
    /\ line = None
    /\ query = <<>>
    /\ messages = <<>>
    /\ mcp_tools \in AnyCatalog
    /\ openai_tools = <<>>
    /\ final_text = <<>>
    /\ message = NoReply
    /\ idx = 0
    /\ final_message = NoReply
    /\ response = <<>>
    /\ sent = <<>>
    /\ dispatched = <<>>
    /\ outcomes = <<>>
    /\ MonBlank

\* The call of _convert_mcp_tools_to_openai_format(mcp_tools).
Convert ==
    /\ pc = "convert"
    /\ openai_tools' = convert_mcp_tools_to_openai_format(mcp_tools)
    /\ pc' = "converted"
    /\ UNCHANGED <<monVars, startVars, exc, excSite, lifeVars, turns, stdout, line, query,
                   messages, mcp_tools, final_text, message, idx, final_message,
                   response, sent, dispatched, outcomes>>

ConvertSpec == ConvertInit /\ [][Convert]_vars

\* --------------------------------------- the temperature monitor
\* "if len(self.temperature_history) > 20": the readings kept.
HistoryLimit == 20

\* time.sleep(3) between two iterations.
SleepSeconds == 3

\* time.time() when run_monitoring takes its first reading.
StartTimes == {0, 7}

\* The reading taken at time t: temp_value = 20 + (time.time() % 15).
Reading(t) == [timestamp |-> t, temperature |-> 20 + (t % 15)]

\* temp_data = f"{temp_value:.1f}C" with the degree sign.
TempData(temp_value) == <<ToString(temp_value), ".0", "C">>

\* Mutant: the oldest readings are kept.
Trim_KeepsOldest(history) ==
    IF Len(history) > HistoryLimit THEN SubSeq(history, 1, HistoryLimit) ELSE history

\* "Keep only recent history": temperature_history[-20:] when it is longer.
Trim(history) ==
    IF Len(history) > HistoryLimit
    THEN SubSeq(history, Len(history) - HistoryLimit + 1, Len(history))
    ELSE history

\* A reply with the four members the prompt asks for.
DecisionText ==
    <<"{", "\"", "next_check_minutes", "\"", ":", "15", ",",
           "\"", "priority", "\"", ":", "\"", "high", "\"", ",",
           "\"", "reason", "\"", ":", "\"", "Rising fast", "\"", ",",
           "\"", "adaptive_rule", "\"", ":", "\"", "Afternoon trend", "\"", "}">>

\* The same reply after a sentence of prose.
ProseText == <<"Here is my decision: ">> \o DecisionText

\* How client.chat.completions.create may end in ai_schedule_decision: it
\* raises, or it returns a reply whose content is None, "", a JSON object
\* (complete or without the members) or text that is not JSON.
MonitorReplies ==
    { [raises |-> k, content |-> None] : k \in SyncRaises }
    \cup { [raises |-> "none", content |-> c] :
             c \in { None, Some(<<>>), Some(DecisionText), Some(ArgEmptyObject),
                     Some(ProseText), Some(ArgTruncated) } }

\* Mutant: the reply is parsed without the check for an empty content.
DecisionFailure_NoEmptyCheck(r) ==
    IF r.raises = "Exception" \/ ~r.content.some THEN "api"
    ELSE IF ~json_loads(r.content.text).ok THEN "json"
    ELSE "none"

\* The except clause that ends the try block of ai_schedule_decision: "api"
\* (except Exception: the create call raised, or the ValueError of the empty
\* reply), "json" (except json.JSONDecodeError) or "none".
DecisionFailure(r) ==
    IF r.raises = "Exception" \/ ~Truthy(r.content) THEN "api"
    ELSE IF ~json_loads(r.content.text).ok THEN "json"
    ELSE "none"

\* The dict returned by "except json.JSONDecodeError".
FallbackJson ==
    << <<"next_check_minutes", 5>>, <<"priority", "medium">>,
       <<"reason", "Fallback due to JSON parsing error">>,
       <<"adaptive_rule", "Error recovery">> >>

\* The dict returned by "except Exception".
FallbackApi ==
    << <<"next_check_minutes", 10>>, <<"priority", "low">>,
       <<"reason", "Fallback due to API error">>,
       <<"adaptive_rule", "Error recovery">> >>

\* key in d, for a dict held as a sequence of <<key, value>> pairs.
HasKey(d, k) == \E i \in DOMAIN d : d[i][1] = k

\* The keys run_monitoring reads from the decision.
DisplayKeys == {"reason", "next_check_minutes", "priority", "adaptive_rule"}

\* monitor = WeatherMonitorMockup(); monitor.run_monitoring()
MonitorInit ==
    /\ entry = "run_monitoring"
    /\ argv = <<>>
    /\ apiKey = Some(<<"sk-test">>)
    /\ pc = "take_reading"
    /\ exc = "none"
    /\ excSite = ""
    /\ session = FALSE
    /\ exit_stack = <<>>
    /\ opened = {}
    /\ cleanupRan = FALSE
    /\ turns = 0
    /\ stdout = "none"
    /\ ProcBlank
    /\ temperature_history = <<>>
    /\ schedule_history = <<>>
    /\ decision = <<>>
    /\ reply = NoMonitorReply
    /\ clock \in StartTimes
    /\ readings = <<>>

\* The reading of an iteration is taken, stored and the history trimmed.
TakeReading ==
    /\ pc = "take_reading"
    /\ Len(readings) < MaxReadings
    /\ temperature_history' = Trim(Append(temperature_history, Reading(clock)))
    /\ readings' = Append(readings, Reading(clock))
    /\ pc' = "request_decision"
    /\ UNCHANGED <<startVars, exc, excSite, lifeVars, turns, stdout, procVars,
                   schedule_history, decision, reply, clock>>

\* decision = self.ai_schedule_decision(temp_data)
AiScheduleDecision ==
    /\ pc = "request_decision"
    /\ \E r \in MonitorReplies :
         LET temp_data == TempData(Reading(clock).temperature) IN
         /\ reply' = r
         /\ IF r.raises = "KeyboardInterrupt"
            THEN /\ pc' = "stopped"
                 /\ UNCHANGED <<decision, schedule_history>>
            ELSE IF DecisionFailure(r) = "api"
            THEN /\ decision' = FallbackApi
                 /\ pc' = "display"
                 /\ UNCHANGED schedule_history
            ELSE IF DecisionFailure(r) = "json"
            THEN /\ decision' = FallbackJson
                 /\ pc' = "display"
                 /\ UNCHANGED schedule_history
            ELSE /\ Len(schedule_history) < MaxDecisions
                 /\ decision' = json_loads(r.content.text).value
                 /\ schedule_history' =
                      Append(schedule_history,
                             [timestamp |-> clock, decision |-> decision',
                              temperature |-> temp_data])
                 /\ pc' = "display"
    /\ UNCHANGED <<startVars, exc, excSite, lifeVars, turns, stdout, procVars,
                   temperature_history, clock, readings>>

\* The status lines are printed from the decision's members (a missing one is
\* a KeyError, which run_monitoring does not catch), then time.sleep(3), which
\* Ctrl-C may interrupt.
Display ==
    /\ pc = "display"
    /\ IF \A k \in DisplayKeys : HasKey(decision, k)
       THEN /\ \/ /\ clock' = clock + SleepSeconds
                  /\ pc' = "take_reading"
               \/ /\ pc' = "stopped"
                  /\ UNCHANGED clock
            /\ UNCHANGED <<exc, excSite>>
       ELSE /\ pc' = "crashed"
            /\ exc' = "Exception"
            /\ excSite' = "display"
            /\ UNCHANGED clock
    /\ decision' = <<>>
    /\ reply' = NoMonitorReply
    /\ UNCHANGED <<startVars, lifeVars, turns, stdout, procVars,
                   temperature_history, schedule_history, readings>>

MonitorNext ==
    \/ TakeReading
    \/ AiScheduleDecision
    \/ Display

MonitorSpec == MonitorInit /\ [][MonitorNext]_vars

\* ======================================================== properties
\* The tool-call requests of the first reply.
Requested == message.tool_calls
NumRequested == Len(Requested)

\* The tool-role messages of a conversation, in order.
ToolRoleMessages(msgs) == SelectSeq(msgs, LAMBDA m : m.role = "tool")

\* A conversation holds exactly one tool-role message per requested call, in
\* request order, each with the id of its request.
OneToolMessagePerRequest(msgs) ==
    /\ Len(ToolRoleMessages(msgs)) = NumRequested
    /\ \A i \in 1..NumRequested :
         ToolRoleMessages(msgs)[i].tool_call_id = Requested[i].id

\* C1: when the follow-up model call is issued (process_query stands at it, or
\* the request has been recorded), the conversation holds exactly N >= 1
\* tool-role messages, one per tool call requested by the first reply, in
\* request order, each carrying the id of its request, whatever the outcome of
\* each invocation was.
C1_ToolMessagesBeforeFollowUp ==
    /\ pc = "second_call" =>
         /\ NumRequested >= 1
         /\ OneToolMessagePerRequest(messages)
         /\ Len(outcomes) = NumRequested
    /\ Len(sent) >= 2 =>
         /\ NumRequested >= 1
         /\ OneToolMessagePerRequest(sent[2].messages)

\* Two calls were requested, the first invocation raised, the second
\* succeeded, and the follow-up call has been issued.
C1_Witness ==
    /\ Len(sent) = 2
    /\ NumRequested = 2
    /\ outcomes[1].kind = "Exception"
    /\ outcomes[2].kind = "ok"

\* The tool-role messages of the conversation that answer request i.
AnswersTo(i) ==
    { j \in DOMAIN messages :
        messages[j].role = "tool" /\ messages[j].tool_call_id = Requested[i].id }

\* C2: if call_tool raised for a requested call, the tool-role message of that
\* call has a content starting with "Error calling tool " and the tool name,
\* and the text process_query returns includes that content.
C2_ToolErrorSurfaced ==
    \A i \in 1..Len(outcomes) :
      outcomes[i].kind = "Exception" =>
        /\ AnswersTo(i) # {}
        /\ \A j \in AnswersTo(i) :
             /\ StartsWith(messages[j].content.text,
                           <<"Error calling tool ", Requested[i].function.name>>)
             /\ pc = "returned" => Contains(response, messages[j].content.text)

\* process_query returned after get_weather raised "server down": the answer
\* contains "Error calling tool get_weather: server down".
C2_Witness ==
    /\ pc = "returned"
    /\ \E i \in 1..Len(outcomes) :
         /\ outcomes[i].kind = "Exception"
         /\ Requested[i].function.name = "get_weather"
    /\ Contains(response,
                <<"Error calling tool ", "get_weather", ": ", "server down">>)

\* C3: a query issues at most two chat-completion calls: one when the first
\* reply requests no tool, exactly two when it requests some; every call_tool
\* invocation is for a request of the first reply, so the tool calls of the
\* second reply are never dispatched and cause no third model call.
C3_AtMostTwoModelCalls ==
    /\ Len(sent) <= 2
    /\ Len(dispatched) <= NumRequested
    /\ \A i \in 1..Len(dispatched) :
         dispatched[i].name = Requested[i].function.name
    /\ (pc = "returned" /\ session) =>
         /\ Len(sent) = IF NumRequested = 0 THEN 1 ELSE 2
         /\ Len(dispatched) = NumRequested

\* The second reply asked for one more tool call; two model calls were made
\* and only the single request of the first reply was dispatched.
C3_Witness ==
    /\ pc = "returned"
    /\ final_message.tool_calls # <<>>
    /\ NumRequested = 1
    /\ Requested[1].function.name = "get_weather"
    /\ Len(sent) = 2
    /\ Len(dispatched) = 1

\* The requests whose argument text is not valid JSON.
InvalidJson(i) == ~json_loads(Requested[i].function.arguments).ok

\* C4: a requested call whose argument text is not valid JSON is dispatched to
\* the transport with an empty argument set and gets its tool-role message;
\* the tool loop goes on through every requested call and the follow-up model
\* call is made.
C4_InvalidJsonStillDispatched ==
    /\ \A i \in 1..Len(dispatched) :
         InvalidJson(i) =>
           /\ dispatched[i] = [name |-> Requested[i].function.name, args |-> <<>>]
           /\ AnswersTo(i) # {}
    /\ pc = "call_tool" => idx = Len(dispatched) + 1 /\ idx <= NumRequested
    /\ (pc \in {"second_call", "returned"} /\ NumRequested > 0) =>
         Len(dispatched) = NumRequested
    /\ (pc = "returned" /\ NumRequested > 0) => Len(sent) = 2

\* The first of two requests had a truncated argument text; both were
\* dispatched and the follow-up call was made.
C4_Witness ==
    /\ pc = "returned"
    /\ NumRequested = 2
    /\ Requested[1].function.arguments = ArgTruncated
    /\ Requested[2].function.arguments = ArgCityBoston
    /\ dispatched[1].args = <<>>
    /\ dispatched[2].args # <<>>
    /\ Len(sent) = 2

\* C5: when the first reply requests no tool call, the returned text is that
\* reply's content exactly (empty when there is no content), no tool is
\* invoked and no second model call is made.
C5_NoToolCallsReturnsContent ==
    (pc = "returned" /\ Len(sent) >= 1 /\ NumRequested = 0) =>
      /\ response = (IF message.content.some THEN message.content.text ELSE <<>>)
      /\ dispatched = <<>>
      /\ Len(sent) = 1

\* A reply with a text and no tool call was returned.
C5_Witness ==
    /\ pc = "returned"
    /\ NumRequested = 0
    /\ message.content = Some(FirstText)
    /\ response = FirstText

\* The trace line expected for request i, spelled out.
ExpectedTrace(i) ==
    <<"[Calling tool ", Requested[i].function.name, " with args ">>
    \o ReprDict(ParseToolArgs(Requested[i].function.arguments)) \o <<"]">>

\* The error string expected for request i when its invocation raised.
ExpectedError(i) ==
    <<"Error calling tool ", Requested[i].function.name, ": ">> \o outcomes[i].text

\* The tool-role messages of the follow-up request that answer request i.
SentAnswersTo(i) ==
    { j \in DOMAIN sent[2].messages :
        /\ sent[2].messages[j].role = "tool"
        /\ sent[2].messages[j].tool_call_id = Requested[i].id }

\* C6 as stated: after a successful tool call the returned answer contains the
\* tool's result text and the trace line of the call.
C6_Original ==
    pc = "returned" =>
      \A i \in 1..Len(outcomes) :
        outcomes[i].kind = "ok" =>
          /\ Contains(response, outcomes[i].text)
          /\ Contains(response, ExpectedTrace(i))

\* C6 (amended): after a successful tool call the returned answer contains the
\* trace line "[Calling tool <name> with args <args>]" of the call; the tool's
\* result text is carried by that call's tool-role message in the follow-up
\* request, and the answer contains it whenever the second reply's text does
\* (the result itself is not added to the answer).
C6_ResultReachesModelTraceReachesAnswer ==
    pc = "returned" =>
      \A i \in 1..Len(outcomes) :
        outcomes[i].kind = "ok" =>
          /\ Contains(response, ExpectedTrace(i))
          /\ SentAnswersTo(i) # {}
          /\ \A j \in SentAnswersTo(i) :
               Contains(sent[2].messages[j].content.text, outcomes[i].text)
          /\ (/\ Truthy(final_message.content)
              /\ Contains(final_message.content.text, outcomes[i].text))
             => Contains(response, outcomes[i].text)

\* The scenario: get_weather({"city": "Boston"}) answered "72F, clear", the
\* second reply quotes it, and the answer holds both the result text and the
\* trace line "[Calling tool get_weather with args {'city': 'Boston'}]".
C6_Witness ==
    /\ pc = "returned"
    /\ NumRequested = 1
    /\ Requested[1].function = [name |-> "get_weather", arguments |-> ArgCityBoston]
    /\ outcomes[1] = [kind |-> "ok", text |-> <<"72F, clear">>]
    /\ Contains(response, <<"72F, clear">>)
    /\ Contains(response,
                <<"[Calling tool ", "get_weather", " with args ",
                  "{", "'", "city", "'", ": ", "'", "Boston", "'", "}", "]">>)

\* The parts of the answer that request i contributes.
CallParts(i) ==
    <<ExpectedTrace(i)>>
    \o (IF outcomes[i].kind = "Exception" THEN <<ExpectedError(i)>> ELSE <<>>)

RECURSIVE ToolParts(_)
\* The parts contributed by requests 1..n, in request order.
ToolParts(n) == IF n = 0 THEN <<>> ELSE ToolParts(n - 1) \o CallParts(n)

\* The parts of the answer in order: the first reply's text (if any), the
\* parts of each tool call, the second reply's text (if any).
ExpectedParts ==
    (IF Truthy(message.content) THEN <<message.content.text>> ELSE <<>>)
    \o ToolParts(Len(outcomes))
    \o (IF Truthy(final_message.content) THEN <<final_message.content.text>> ELSE <<>>)

\* C7 as stated: the returned text is the plain concatenation of the parts and
\* nothing else.
C7_Original ==
    (pc = "returned" /\ Len(sent) >= 1) => response = Concat(ExpectedParts)

\* C7 (amended): the returned text consists of the first reply's text (if
\* any), then for each requested call in request order its trace line followed
\* by its error string if the invocation raised, then the second reply's text
\* (if any), joined with one newline between consecutive parts; nothing else
\* is part of it.
C7_AnswerIsPartsJoinedByNewline ==
    (pc = "returned" /\ Len(sent) >= 1) => response = JoinNewline(ExpectedParts)

\* An answer of five parts: first text, a trace line, a trace line with its
\* error string, and the final text.
C7_Witness ==
    /\ pc = "returned"
    /\ Truthy(message.content)
    /\ NumRequested = 2
    /\ outcomes[1].kind = "ok"
    /\ outcomes[2].kind = "Exception"
    /\ Truthy(final_message.content)
    /\ Len(ExpectedParts) = 5

\* The calls of process_query that may raise out of it.
QuerySites == {"list_tools", "create_1", "call_tool", "create_2"}

C9_SessionReleasedOnEveryExit ==
    pc = "done" =>
      /\ ~(exc = "Exception" /\ excSite = "__init__") => cleanupRan
      /\ opened = {}
      /\ exit_stack = <<>>

\* chat_loop was left by a CancelledError out of call_tool, with the session
\* open; the run ended after cleanup.
C9_Witness ==
    /\ pc = "done"
    /\ session
    /\ exc = "CancelledError"
    /\ excSite = "call_tool"
    /\ cleanupRan
    /\ opened = {}

\* The loop was left by the break of the exit command.
LeftByExitCommand == line.some /\ pc \in {"cleanup", "done"}

\* C10 as stated: the loop terminates without calling process_query exactly
\* when the entered line is quit, exit or q in any letter case; every other
\* line is forwarded.
C10_Original ==
    line.some => (LeftByExitCommand <=> lower(line.text) \in ExitWords)

\* C10 (amended): the loop terminates without calling process_query exactly
\* when the entered line, with leading and trailing whitespace removed, is
\* quit, exit or q in any letter case; every other line is forwarded to
\* process_query with that whitespace removed.
C10_ExitCommandAfterStrip ==
    line.some =>
      /\ LeftByExitCommand <=> lower(strip(line.text)) \in ExitWords
      /\ LeftByExitCommand =>
           /\ query = <<>>
           /\ messages = <<>>
           /\ sent = <<>>
      /\ ~LeftByExitCommand =>
           /\ query = strip(line.text)
           /\ pc \in {"list_tools", "first_call", "call_tool", "second_call",
                      "returned"}
           /\ messages[1] = UserMessage(strip(line.text))

\* " quit " was entered and the loop was left.
C10_Witness ==
    /\ line = Some(<<" ", "q", "u", "i", "t", " ">>)
    /\ pc = "cleanup"
    /\ turns = 1

\* C11: with the API-key variable unset or empty the client stops before
\* connecting: the script's __main__ block exits with a message, and the
\* constructor raises its ValueError before connect_to_server runs; no
\* transport or session is opened, no tool catalog is fetched and no
\* chat-completion call is issued.
C11_NoKeyFailsBeforeConnecting ==
    ~Truthy(apiKey) =>
      /\ pc \in {"main", "construct", "exited", "done"}
      /\ pc = "done" => (exc = "Exception" /\ excSite = "__init__" /\ ~cleanupRan)
      /\ pc = "exited" => stdout \in {"usage", "key_required"}
      /\ ~session
      /\ opened = {}
      /\ exit_stack = <<>>
      /\ turns = 0
      /\ ProcBlank

\* openai_client_loop was run with an empty key: the constructor raised.
C11_Witness ==
    /\ entry = "openai_client_loop"
    /\ apiKey = Some(<<>>)
    /\ pc = "done"
    /\ exc = "Exception"
    /\ excSite = "__init__"

\* C12: the adapter returns one function spec per descriptor, in catalog
\* order, with the descriptor's name, description and input schema unchanged;
\* nothing is filtered out, added or altered.
C12_AdapterIsOneToOne ==
    pc \in {"converted", "first_call", "call_tool", "second_call"} =>
      /\ Len(openai_tools) = Len(mcp_tools)
      /\ \A i \in 1..Len(mcp_tools) :
           /\ openai_tools[i].type = "function"
           /\ DOMAIN openai_tools[i].function = {"name", "description", "parameters"}
           /\ openai_tools[i].function.name = mcp_tools[i].name
           /\ openai_tools[i].function.description = mcp_tools[i].description
           /\ openai_tools[i].function.parameters = mcp_tools[i].inputSchema

\* A catalog of four descriptors with a repetition and an empty description
\* was converted.
C12_Witness ==
    /\ pc = "converted"
    /\ mcp_tools = <<AlertsTool, PingTool, WeatherTool, AlertsTool>>
    /\ Len(openai_tools) = 4
    /\ openai_tools[2].function.name = "ping"

\* The user message expected for the query in progress, spelled out.
ExpectedUserMessage ==
    [role |-> "user", content |-> Some(query), tool_calls |-> <<>>, tool_call_id |-> ""]

\* C13: whatever happened in earlier queries, the conversation sent in a
\* query's first model call is exactly one user message holding that query's
\* text, the follow-up request holds that message followed only by what this
\* query produced, and no conversation is kept at the prompt between queries.
C13_NoCrossQueryMemory ==
    /\ Len(sent) >= 1 =>
         /\ sent[1].messages = <<ExpectedUserMessage>>
         /\ line.some /\ query = strip(line.text)
    /\ Len(sent) >= 2 =>
         /\ Len(sent[2].messages) = 2 + NumRequested
         /\ sent[2].messages[1] = ExpectedUserMessage
         /\ \A j \in 2..Len(sent[2].messages) : sent[2].messages[j].role # "user"
    /\ pc \in {"read", "except"} => (messages = <<>> /\ sent = <<>> /\ final_text = <<>>)

\* The second query of a session, after a first one that called tools and
\* failed in its follow-up call, has issued its first model call.
C13_Witness ==
    /\ turns = 2
    /\ stdout = "Error: create_2"
    /\ pc = "call_tool"
    /\ Len(sent) = 1
    /\ sent[1].messages = <<UserMessage(<<"q", "u", "i", "t", "s">>)>>

\* The arguments the i-th requested call is expected to be invoked with.
ExpectedArgs(i) ==
    IF IsJsonObject(Requested[i].function.arguments)
    THEN json_loads(Requested[i].function.arguments).value
    ELSE <<>>

\* C14: the requested tool calls are invoked one after another in request
\* order, each exactly once: the i-th invocation is the i-th requested call,
\* an invocation starts only when every earlier invocation has its tool-role
\* message in the conversation, and a failed invocation is neither retried nor
\* keeps the later calls from being invoked.
C14_ToolCallsInOrderOnce ==
    /\ [](/\ Len(dispatched) = Len(outcomes)
          /\ Len(dispatched) <= NumRequested
          /\ Len(ToolRoleMessages(messages)) = Len(dispatched)
          /\ \A i \in 1..Len(dispatched) :
               /\ dispatched[i] = [name |-> Requested[i].function.name,
                                   args |-> ExpectedArgs(i)]
               /\ ToolRoleMessages(messages)[i].tool_call_id = Requested[i].id
          /\ pc = "call_tool" => idx = Len(dispatched) + 1 /\ idx <= NumRequested
          /\ pc = "second_call" => Len(dispatched) = NumRequested)
    /\ [][Len(dispatched') > Len(dispatched) =>
            /\ Len(dispatched') = Len(dispatched) + 1
            /\ Len(ToolRoleMessages(messages)) = Len(dispatched)
            /\ Len(ToolRoleMessages(messages')) = Len(dispatched')
            /\ idx' = idx + 1
            /\ SubSeq(dispatched', 1, Len(dispatched)) = dispatched
            /\ SubSeq(outcomes', 1, Len(outcomes)) = outcomes]_vars

\* Two different calls were requested; the first invocation raised, the
\* second one succeeded, and the loop is over.
C14_Witness ==
    /\ pc = "second_call"
    /\ NumRequested = 2
    /\ Requested[1].function.name = "get_alerts"
    /\ Requested[2].function.name = "get_weather"
    /\ Len(outcomes) = 2
    /\ outcomes[1].kind = "Exception"
    /\ outcomes[2].kind = "ok"
    /\ dispatched[2].args = << <<"city", "Boston">> >>

\* The assistant message expected for the first reply, spelled out.
ExpectedAssistantMessage ==
    [role |-> "assistant", content |-> message.content, tool_calls |-> Requested,
     tool_call_id |-> ""]

\* C15: the conversation sent in the follow-up model call is the user message,
\* then one assistant message with the first reply's content and all N
\* requested tool calls, then N tool-role messages; the tool_call_ids of the
\* tool-role messages are exactly the ids listed in the assistant message, one
\* reply per listed call; and the assistant message is in the conversation
\* before the first tool is invoked.
C15_FollowUpConversationWellFormed ==
    /\ Len(sent) >= 2 =>
         LET conv == sent[2].messages IN
         /\ NumRequested >= 1
         /\ Len(conv) = 2 + NumRequested
         /\ conv[1] = ExpectedUserMessage
         /\ conv[2] = ExpectedAssistantMessage
         /\ Len(conv[2].tool_calls) = NumRequested
         /\ \A i \in 1..NumRequested :
              /\ conv[2 + i].role = "tool"
              /\ conv[2 + i].content.some
              /\ conv[2 + i].tool_call_id = conv[2].tool_calls[i].id
         /\ \A i \in 1..NumRequested :
              Cardinality({ j \in 3..Len(conv) :
                              conv[j].tool_call_id = conv[2].tool_calls[i].id }) = 1
    /\ pc = "call_tool" =>
         /\ Len(messages) >= 2
         /\ messages[1] = ExpectedUserMessage
         /\ messages[2] = ExpectedAssistantMessage
         /\ dispatched = <<>> => Len(messages) = 2

\* The first reply had no content and requested two calls; the follow-up
\* request went out with two tool-role messages, the second an error.
C15_Witness ==
    /\ Len(sent) = 2
    /\ message.content = None
    /\ NumRequested = 2
    /\ Len(sent[2].messages) = 4
    /\ sent[2].messages[2].tool_calls[2].id = "call_2"
    /\ sent[2].messages[4].tool_call_id = "call_2"
    /\ outcomes[1].kind = "ok"
    /\ outcomes[2].kind = "Exception"

\* chat_loop was entered and is over.
LoopLeft ==
    /\ session
    /\ pc \in {"cleanup", "done"}
    /\ excSite \notin Range(ConnectStages)

\* The call sites inside the try block of chat_loop.
LoopSites == {"input"} \cup QuerySites

\* C16 as stated: chat_loop is left only by an exit command or by a
\* KeyboardInterrupt.
C16_Original ==
    LoopLeft => (LeftByExitCommand \/ stdout = "goodbye")

\* C16 (amended): chat_loop is left only by an exit command, by a
\* KeyboardInterrupt, or by an exception that is not an Exception (a
\* CancelledError out of an await), which propagates unreported; an Exception
\* raised while reading the line or while processing the query is reported
\* and the loop is back at its prompt, as often as the read fails.
C16_LoopEndsOnlyByExitInterruptOrCancel ==
    /\ [](LoopLeft =>
            \/ LeftByExitCommand /\ exc = "none"
            \/ stdout = "goodbye" /\ exc = "none" /\ ~line.some
            \/ exc = "CancelledError" /\ excSite \in {"list_tools", "call_tool"})
    /\ [][ /\ (exc = "none" /\ exc' = "Exception" /\ excSite' \in LoopSites) =>
                /\ pc' = "except"
                /\ UNCHANGED <<lifeVars, turns, stdout>>
           /\ (pc = "except" /\ excSite \in LoopSites) =>
                /\ pc' = "read"
                /\ stdout' = "Error: " \o excSite
                /\ UNCHANGED <<lifeVars, turns>>
           /\ (exc = "none" /\ exc' = "CancelledError" /\ excSite' \in LoopSites) =>
                /\ pc' = "cleanup"
                /\ UNCHANGED <<lifeVars, turns, stdout>> ]_vars

\* The read failed, the failure was reported, and the read failed again: the
\* loop is about to report it a second time.
C16_Witness ==
    /\ pc = "except"
    /\ exc = "Exception"
    /\ excSite = "input"
    /\ stdout = "Error: input"
    /\ turns = 0
    /\ session

\* C17: process_query called on a client that has no session returns the text
\* "Error: Not connected to MCP server"; the catalog is not fetched, no model
\* call is issued and no tool is invoked.
C17_NotConnectedReturnsError ==
    ~session =>
      /\ pc \notin {"list_tools", "first_call", "call_tool", "second_call"}
      /\ mcp_tools = <<>>
      /\ openai_tools = <<>>
      /\ messages = <<>>
      /\ sent = <<>>
      /\ dispatched = <<>>
      /\ outcomes = <<>>
      /\ pc = "returned_direct" =>
           /\ response = <<"Error: Not connected to MCP server">>
           /\ turns = 1
           /\ final_text = <<>>

\* A caller constructed the client and called process_query("hi") without
\* connecting; the call has returned.
C17_Witness ==
    /\ entry = "process_query"
    /\ pc = "returned_direct"
    /\ ~session
    /\ query = <<"h", "i">>
    /\ response = <<"Error: Not connected to MCP server">>

\* C18: ai_schedule_decision always returns a decision unless the create call
\* is interrupted (KeyboardInterrupt): for a non-empty reply that parses as
\* JSON the parsed decision, with exactly one entry appended to
\* schedule_history; for a non-empty reply that is not JSON the 5-minute
\* medium-priority fallback; when the create call raised an Exception or the
\* reply is None or "" the 10-minute low-priority fallback; with either
\* fallback schedule_history is unchanged.
C18_DecisionOrFallback ==
    [][pc = "request_decision" /\ pc' # pc =>
         LET r == reply'
             valid == /\ r.raises = "none" /\ r.content.some /\ r.content.text # <<>>
                      /\ IsJsonObject(r.content.text)
             invalid == /\ r.raises = "none" /\ r.content.some /\ r.content.text # <<>>
                        /\ ~IsJsonObject(r.content.text)
             failed == \/ r.raises = "Exception"
                       \/ r.raises = "none" /\ (~r.content.some \/ r.content.text = <<>>)
         IN
         /\ pc' \in {"display", "stopped"}
         /\ exc' = "none"
         /\ pc' = "stopped" <=> r.raises = "KeyboardInterrupt"
         /\ pc' = "stopped" => UNCHANGED schedule_history
         /\ valid =>
              /\ decision' = json_loads(r.content.text).value
              /\ Len(schedule_history') = Len(schedule_history) + 1
              /\ SubSeq(schedule_history', 1, Len(schedule_history)) = schedule_history
              /\ schedule_history'[Len(schedule_history')].decision = decision'
         /\ r.content = Some(DecisionText) =>
              decision' = << <<"next_check_minutes", 15>>, <<"priority", "high">>,
                             <<"reason", "Rising fast">>,
                             <<"adaptive_rule", "Afternoon trend">> >>
         /\ invalid =>
              /\ decision' = << <<"next_check_minutes", 5>>, <<"priority", "medium">>,
                                <<"reason", "Fallback due to JSON parsing error">>,
                                <<"adaptive_rule", "Error recovery">> >>
              /\ UNCHANGED schedule_history
         /\ failed =>
              /\ decision' = << <<"next_check_minutes", 10>>, <<"priority", "low">>,
                                <<"reason", "Fallback due to API error">>,
                                <<"adaptive_rule", "Error recovery">> >>
              /\ UNCHANGED schedule_history ]_vars

\* After a stored decision and a reply with prose answered by the 5-minute
\* fallback, an empty reply has been answered by the 10-minute fallback.
C18_Witness ==
    /\ pc = "display"
    /\ reply = [raises |-> "none", content |-> Some(<<>>)]
    /\ decision[1] = <<"next_check_minutes", 10>>
    /\ Len(schedule_history) = 1
    /\ schedule_history[1].decision[2] = <<"priority", "high">>
    /\ Len(readings) = 3

\* C19: whenever the scheduling decision is requested, temperature_history
\* holds at most 20 readings, and they are the most recent readings taken, in
\* the order they were taken.
C19_HistoryIsLast20Readings ==
    /\ Len(temperature_history) <= 20
    /\ pc \in {"request_decision", "display"} =>
         LET n == Len(readings)
             k == IF n < 20 THEN n ELSE 20
         IN
         /\ n >= 1
         /\ Len(temperature_history) = k
         /\ \A i \in 1..k : temperature_history[i] = readings[n - k + i]
         /\ \A i \in 1..(k - 1) :
              temperature_history[i].timestamp < temperature_history[i + 1].timestamp

\* The decision is requested for the 22nd reading: the history holds the
\* 3rd to the 22nd.
C19_Witness ==
    /\ pc = "request_decision"
    /\ Len(readings) = 22
    /\ Len(temperature_history) = 20
    /\ temperature_history[1] = readings[3]
    /\ temperature_history[20] = readings[22]

====
